---- MODULE Spec2Model ----
(***************************************************************************)
(* Model of rpi-screen-service: a shared ScreenContentReply behind a       *)
(* std::sync::Mutex, one polling loop per data updater (clock, Kitty,      *)
(* gCal, transport), the shared AtomicBool error bit, and the two RPCs     *)
(* (/GetScreenContent and /GetScreenHash) that read the store.             *)
(***************************************************************************)
EXTENDS Integers, Sequences, FiniteSets, TLC

\* ------------------------------------------------------------------ bounds
\* Wall-clock minutes wrap around after this many minutes (60 in chrono).
MinuteModulus == 2
\* Length of a polling period, in abstract time units.
PeriodTicks == 1
\* Number of distinct non-empty payloads a source can return.
MaxData == 1
\* Cap of the counter of update() calls in progress per updater.
MaxInflight == 2
\* Largest duration, in seconds, a backoff policy is constructed with.
MaxDuration == 20
\* Longest run of consecutive set_error() calls.
MaxStreak == 7
\* How much further in the past than the one-minute window, and how far in
\* the future, a fetched departure can lie; how long time runs, in seconds.
PastMargin == 1
MaxAhead == 2
MaxInstant == 2
\* update_period of the Kitty and of the gCal configuration, in seconds.
UpdatePeriod == 30

\* ------------------------------------------------------------------ constants
\* get_duration_to_next_departure: the window of a departure that is ~now,
\* the retry delay, and the offset set_next_update_time passes.
StaleWindow == 60
RetryDelay == 60
DepartureOffset == 1
\* get_default_next_update_time and the Dummy mode of get_next_update_time.
DefaultDelay == 600
DummyDelay == 21
\* The Dummy mode of KittyUpdater's and GcalUpdater's get_next_update_time.
KittyDummyDelay == 19
GcalDummyDelay == 29
\* The durations of the unit tests of ExponentialBackoff.
TestBaseDuration == 10
TestFirstErrorDuration == 1
TestMaxErrorDuration == 20

\* ------------------------------------------------------------------ names
Sources == {"kitty", "gcal", "transport"}
Updaters == {"clock"} \cup Sources
\* The display client awaits each reply before its next request, so one
\* handler of the service runs at a time.
Client == "client"
Tasks == Updaters \cup {Client}
NoTask == "none"
Modes == {"Dummy", "Real"}
Fields == {"now", "brightness", "kitty_debts", "bus_departures",
           "next_upcoming_event", "error"}

VARIABLES
    screen_content,    \* the ScreenContentReply inside the Mutex
    error_bit,         \* the shared AtomicBool handed to update()
    lock_holder,       \* task owning the MutexGuard, or NoTask
    poisoned,          \* the Mutex's poison flag
    update_mode,       \* update_mode of each source updater
    configured,        \* updaters whose loop was spawned
    pc,                \* position of every task
    local,             \* update()'s local value (debts, destinations, event, now)
    inflight,          \* update() calls in progress, per updater
    timer,             \* time left until the loop's interval next fires
    wall_clock,        \* local time, in minutes
    last_poll_failed,  \* history: did the source's latest poll fail
    reply,             \* ScreenContentReply being built by get_screen_content
    hash_reply,        \* ScreenHashReply.hash being returned
    poll_pc,           \* position of the polling client's loop, or "free"
    hash,              \* the polling client's stored hash
    minutes,           \* the polling client's stored minute
    new_hash,          \* the hash received in this iteration of the client
    sent,              \* history: requests sent in this iteration of the client
    last_hash,         \* history: the last hash answer, until an updater writes;
                       \* clock and error_bit as they were when it was given
    content,           \* the polling client's content, Empty when it keeps none
    eb,                \* an ExponentialBackoff, as the unit tests drive it
    streak,            \* history: set_error calls since new / set_success
    last_call,         \* history: the last method called on eb
    backoff,           \* the backoff policy of each source updater
    instant,           \* Instant::now() / Utc::now(), in seconds
    transport_next_update,  \* TransportUpdater.transport_next_update
    next_update_time,  \* what get_next_update_time() returned last
    transit_op,        \* history: the last updater method run
    extract_departures,  \* the call of extract_departures, Empty when none
    parse_next_event,  \* the call of parse_next_event, Empty when none
    extract_debts      \* the call of extract_debts, Empty when none

poller_vars == <<poll_pc, hash, minutes, new_hash, sent, last_hash, content>>
backoff_vars == <<eb, streak, last_call, backoff>>
transit_vars == <<instant, transport_next_update, next_update_time, transit_op>>
parser_vars == <<extract_departures, parse_next_event, extract_debts>>

service_vars == <<screen_content, error_bit, lock_holder, poisoned, update_mode,
                  configured, pc, local, inflight, timer, wall_clock,
                  last_poll_failed, reply, hash_reply>>

vars == <<screen_content, error_bit, lock_holder, poisoned, update_mode,
          configured, pc, local, inflight, timer, wall_clock,
          last_poll_failed, reply, hash_reply, poller_vars, backoff_vars,
          transit_vars, parser_vars>>

\* ------------------------------------------------------------------ data
\* Option<T> and Vec<T> are sequences: None and vec![] are << >>.
Empty == << >>
Payloads == {<<d>> : d \in 1..MaxData}

DefaultContent ==
    [now |-> Empty, brightness |-> 0, kitty_debts |-> Empty,
     bus_departures |-> Empty, next_upcoming_event |-> Empty, error |-> FALSE]

OwnField(u) ==
    CASE u = "clock" -> "now"
      [] u = "kitty" -> "kitty_debts"
      [] u = "transport" -> "bus_departures"
      [] u = "gcal" -> "next_upcoming_event"

\* What update() writes when the fetch or the parse failed.
FailureValue(u) == Empty

\* Outcomes of the fetch step of update(): the value to write and whether
\* the poll failed.  extract_debts never succeeds with an empty list;
\* extract_departures and parse_next_event may.
FetchOutcomes(u) ==
    IF update_mode[u] = "Dummy"
    THEN {[value |-> v, failed |-> f] : v \in Payloads,
              f \in IF u = "gcal" THEN BOOLEAN ELSE {FALSE}}
    ELSE {[value |-> v, failed |-> FALSE] :
              v \in Payloads \cup (IF u = "kitty" THEN {} ELSE {Empty})}
         \cup {[value |-> FailureValue(u), failed |-> TRUE]}

\* The AtomicBool after the fetch step: only gCal's update() stores to it.
ErrorBitAfter(u, failed) == IF u = "gcal" THEN failed ELSE error_bit

\* The assignment made under the lock.
WriteField_whole(u, v) == [DefaultContent EXCEPT ![OwnField(u)] = v]
WriteField(u, v) == [screen_content EXCEPT ![OwnField(u)] = v]

\* Mutex::lock() returns only when no guard is alive.
LockFree_unchecked == TRUE
LockFree == lock_holder = NoTask

\* The guard is dropped when the match on lock() ends.
GuardAfterUse_leaked(t) == t
GuardAfterUse(t) == NoTask

\* The loop awaits update() before it ticks the interval again.
LoopAwaitsUpdate_spawn(u) == TRUE
LoopAwaitsUpdate(u) == pc[u] = "sleep"

\* Where the loop goes after update() returned.
AfterUpdate_dies(failed) == IF failed THEN "dead" ELSE "sleep"
AfterUpdate(failed) == "sleep"

\* tokio::time::interval(get_period()): the period between two ticks.
IntervalPeriod(u) == PeriodTicks

\* get_next_update_time() - Instant::now() for Kitty and gCal.
NextPollDelay(u) == PeriodTicks

\* The reply built when the lock is poisoned.
PoisonedReply_silent == DefaultContent
PoisonedReply == [DefaultContent EXCEPT !.error = TRUE]

\* prost encoding followed by DefaultHasher: injective on the encoded fields.
Encode(c) == <<c.now, c.brightness, c.kitty_debts, c.bus_departures,
               c.next_upcoming_event, c.error>>
\* DefaultHasher::new() is made afresh in every call.
Hash_reused(buf) == <<last_hash.hash, buf>>
Hash(buf) == <<buf>>
ErrorHash == << >>

Max(a, b) == IF a >= b THEN a ELSE b

\* What get_hash leaves in the store: the content is encoded as it is, the
\* guard is never written through.
StoreAfterHash_bench(c, now) == [c EXCEPT !.now = <<now>>]
StoreAfterHash(c, now) == c

\* ------------------------------------------------------------------ backoff
Min(a, b) == IF a <= b THEN a ELSE b
Durations == 0..MaxDuration

ExponentialBackoff_new_first(base, first_error, max_error) ==
    [base_duration |-> base, first_error_duration |-> first_error,
     max_error_duration |-> max_error, current_duration |-> first_error,
     is_error |-> FALSE]
ExponentialBackoff_new(base, first_error, max_error) ==
    [base_duration |-> base, first_error_duration |-> first_error,
     max_error_duration |-> max_error, current_duration |-> base,
     is_error |-> FALSE]

set_error_keeps_duration(e) ==
    IF ~e.is_error
    THEN [e EXCEPT !.is_error = TRUE,
                   !.current_duration = e.first_error_duration]
    ELSE e
set_error_uncapped(e) ==
    IF ~e.is_error
    THEN [e EXCEPT !.is_error = TRUE,
                   !.current_duration = e.first_error_duration]
    ELSE [e EXCEPT !.current_duration = e.current_duration * 2]
set_error(e) ==
    IF ~e.is_error
    THEN [e EXCEPT !.is_error = TRUE,
                   !.current_duration = e.first_error_duration]
    ELSE [e EXCEPT !.current_duration =
                       Min(e.current_duration * 2, e.max_error_duration)]

set_success_keeps_duration(e) ==
    IF e.is_error THEN [e EXCEPT !.is_error = FALSE] ELSE e
set_success(e) ==
    IF e.is_error
    THEN [e EXCEPT !.is_error = FALSE, !.current_duration = e.base_duration]
    ELSE e

\* self.update_mode after update(): the match reads it, nothing assigns it.
ModeAfterUpdate_promotes(mode, failed) == IF failed THEN mode ELSE "Real"
ModeAfterUpdate(mode, failed) == mode

\* What update() tells its updater's backoff policy about the poll's
\* outcome: no updater calls set_error() or set_success().
ReportOutcome(b, failed) == b

\* ------------------------------------------------------------------ transit
\* Instants and Unix timestamps are seconds; both clocks run together.
NoInstant == -1
Destinations == {"Flon", "Renens"}

\* Seconds from now to a fetched departure: the edges of the one-minute
\* window, just past, now, and soon.
DepartureDeltas ==
    {0 - (StaleWindow + PastMargin), 0 - StaleWindow, 1 - StaleWindow, 0 - 1}
        \cup 0..MaxAhead

\* What extract_departures can return at instant now: at most one departure
\* per destination, each with a time, in any order.
DepartureLists(now) ==
    LET Times == {now + d : d \in DepartureDeltas}
        Dep(dest, t) == [destination_enum |-> dest, seconds |-> t]
    IN  {Empty}
        \cup {<<Dep(dest, t)>> : dest \in Destinations, t \in Times}
        \cup {<<Dep(d[1], t[1]), Dep(d[2], t[2])>> :
                  d \in {x \in Destinations \X Destinations : x[1] # x[2]},
                  t \in Times \X Times}

\* departures.sort_by_key(seconds): a stable sort.
RECURSIVE InsertByDeparture(_, _)
InsertByDeparture(sorted, d) ==
    IF sorted = Empty THEN <<d>>
    ELSE IF d.seconds < Head(sorted).seconds THEN <<d>> \o sorted
    ELSE <<Head(sorted)>> \o InsertByDeparture(Tail(sorted), d)

RECURSIVE SortFrom(_, _)
SortFrom(sorted, rest) ==
    IF rest = Empty THEN sorted
    ELSE SortFrom(InsertByDeparture(sorted, Head(rest)), Tail(rest))

SortByDeparture_unsorted(departures) == departures
SortByDeparture(departures) == SortFrom(Empty, departures)

get_default_next_update_time(now) == now + DefaultDelay

\* Result<Instant, _> of get_duration_to_next_departure(first, offset).
get_duration_to_next_departure(departures, offset, now) ==
    IF departures = Empty
    THEN [ok |-> FALSE, value |-> NoInstant]
    ELSE LET diff == Head(departures).seconds - now
         IN  IF diff < 0 /\ diff > 0 - StaleWindow
             THEN [ok |-> TRUE, value |-> now + RetryDelay]
             ELSE IF diff < 0
             THEN [ok |-> FALSE, value |-> NoInstant]
             ELSE [ok |-> TRUE, value |-> now + diff + offset]

\* The new transport_next_update, from the sorted departures.
set_next_update_time(sorted, now) ==
    LET next_update ==
            get_duration_to_next_departure(sorted, DepartureOffset, now)
    IN  IF next_update.ok THEN next_update.value
        ELSE get_default_next_update_time(now)

get_next_update_time_unchecked(mode, next_update, now) ==
    IF mode = "Dummy" THEN now + DummyDelay ELSE next_update
get_next_update_time(mode, next_update, now) ==
    IF mode = "Dummy" THEN now + DummyDelay
    ELSE IF next_update < now THEN get_default_next_update_time(now)
    ELSE next_update

\* get_next_update_time of KittyUpdater and of GcalUpdater.
fixed_next_update_time_absolute(u, mode, now) ==
    IF mode = "Real" THEN UpdatePeriod
    ELSE IF u = "kitty" THEN KittyDummyDelay ELSE GcalDummyDelay
fixed_next_update_time(u, mode, now) ==
    IF mode = "Real" THEN now + UpdatePeriod
    ELSE IF u = "kitty" THEN now + KittyDummyDelay ELSE now + GcalDummyDelay

\* ------------------------------------------------------------------ client
\* The polling loop of dummy_client / rpi_client.  poll_pc = "free" stands
\* for any other client (the one-shot queries of the dummy client, the CLI
\* client), which sends either request at any time.
Polling == poll_pc # "free"

\* if hash != new_hash || minutes != Local::now().minute()
NeedFullContent_hashonly(h, nh, m, now) == h # nh
NeedFullContent(h, nh, m, now) == h # nh \/ m # now

\* content = make_full_request(..).await: dummy_client hands the reply to
\* content_pretty_print and keeps none (Empty); rpi_client declares content
\* without a value (Some(Empty)) and assigns every reply to it.
KeptContent(kept, fetched) == IF kept = Empty THEN Empty ELSE <<<<fetched>>>>

\* let mut hash: u64 = 0;
InitialHash_unset == Hash(Encode(DefaultContent))
InitialHash == ErrorHash

\* What the two queries answer when they are served now.
ContentNow == IF poisoned THEN PoisonedReply ELSE screen_content
HashNow == IF poisoned THEN ErrorHash ELSE Hash(Encode(screen_content))

NoRequests == [hash |-> 0, full |-> 0]
NoHashYet ==
    [valid |-> FALSE, clock |-> 0, hash |-> ErrorHash, error_bit |-> FALSE]

\* ------------------------------------------------------------------ transit extractor
\* The least element of a set of numbers.
Minimum(S) == CHOOSE t \in S : \A x \in S : t <= x

MaxTime == 2

Some(v) == <<v>>

\* The TransportConfig of the extracts_departures test.
TestDestinationPoints ==
    <<[destination_name |-> "Renens", stops |-> {234, 345}],
      [destination_name |-> "Flon", stops |-> {456}]>>

UnmappedStop == 42428

\* The event reader.read_event() returns after a start tag: a Text that
\* parses ("text"), a Text off the grammar ("malformed"), a Text with an
\* entity that does not unescape ("unescapable"), or another event ("none").
TimeTexts ==
    [class : {"text"}, value : 1..MaxTime]
        \cup [class : {"malformed", "unescapable", "none"}, value : {0}]
StopTexts ==
    [class : {"text"},
     value : UNION {TestDestinationPoints[i].stops :
                       i \in 1..Len(TestDestinationPoints)}
                 \cup {UnmappedStop}]
        \cup [class : {"malformed", "unescapable", "none"}, value : {0}]

\* get_time: unescape().unwrap(), then parse_from_str(..)? .
get_time(text) ==
    IF text.class = "unescapable" THEN [kind |-> "panic", value |-> 0]
    ELSE IF text.class = "malformed" THEN [kind |-> "Err", value |-> 0]
    ELSE [kind |-> "Ok", value |-> text.value]

DepartureBuilder_default == [departure_time |-> Empty, dest_id |-> Empty]
NoEntry == [TimetabledTime |-> Empty, EstimatedTime |-> Empty, dest_id |-> Empty]

\* for dest in &config.destination_points: the first whose stops hold dest_id.
RECURSIVE MatchingPoint(_, _)
MatchingPoint(points, dest_id) ==
    IF points = Empty THEN Empty
    ELSE IF dest_id \in Head(points).stops
    THEN Some(Head(points).destination_name)
    ELSE MatchingPoint(Tail(points), dest_id)

\* departures.get(..) / departures.insert(..): the earlier departure stays.
InsertIfEarlier(map, new) ==
    IF map[new.destination_enum] = Empty
        \/ map[new.destination_enum][1] > new.seconds
    THEN [map EXCEPT ![new.destination_enum] = Some(new.seconds)]
    ELSE map

\* Ok(departures.iter().map(|entry| *entry.1).collect()): in no order.
Collected(map) ==
    [kind |-> "Ok",
     value |-> {[destination_enum |-> d, seconds |-> map[d][1]] :
                   d \in {x \in Destinations : map[x] # Empty}}]

\* ------------------------------------------------------------------ calendar extractor
MaxStart == 2
MaxLines == 4

\* A line of the feed, as parse_next_event tells lines apart: SUMMARY:<title>,
\* DTSTART:<ts> with ts on the grammar %Y%m%dT%H%M%SZ, DTSTART:<ts> with ts
\* off it, END:VEVENT, and any other line; BEGIN:VEVENT is one of the other
\* lines to it.
IcsLines ==
    [kind : {"SUMMARY"}, title : {"Some event", "Other event"},
     valid : {TRUE}, ts : {0}]
        \cup [kind : {"DTSTART"}, title : {""}, valid : {TRUE},
              ts : 1..MaxStart]
        \cup [kind : {"DTSTART"}, title : {""}, valid : {FALSE}, ts : {0}]
        \cup [kind : {"END:VEVENT", "BEGIN:VEVENT", "other"}, title : {""},
              valid : {TRUE}, ts : {0}]

CalendarEvent_default == [event_title |-> "", event_start |-> Empty]

\* first_upcoming_event.get_or_insert(CalendarEvent::default())
get_or_insert(option, default) ==
    IF option = Empty THEN default ELSE option[1]

\* NaiveDateTime::parse_from_str(ts, "%Y%m%dT%H%M%SZ") and
\* Timestamp::date_time(..), with map_err(..)? .
ParseTimestamp_lenient(line) ==
    [kind |-> "Ok", value |-> line.ts, message |-> Empty]
ParseTimestamp(line) ==
    IF line.valid
    THEN [kind |-> "Ok", value |-> line.ts, message |-> Empty]
    ELSE [kind |-> "Err", value |-> 0,
          message |-> <<"ICS", "timestamp", "parsing", "error">>]

EndsScan_never(line) == FALSE
EndsScan(line) == line.kind = "END:VEVENT"

\* What a line leaves in first_upcoming_event.
AfterLine(event, line) ==
    IF line.kind = "SUMMARY"
    THEN Some([get_or_insert(event, CalendarEvent_default)
                   EXCEPT !.event_title = line.title])
    ELSE IF line.kind = "DTSTART"
    THEN Some([get_or_insert(event, CalendarEvent_default)
                   EXCEPT !.event_start = Some(ParseTimestamp(line).value)])
    ELSE event

\* Ok(first_upcoming_event)
OkEvent_default(event) ==
    [kind |-> "Ok", value |-> Some(get_or_insert(event, CalendarEvent_default)),
     message |-> Empty]
OkEvent(event) == [kind |-> "Ok", value |-> event, message |-> Empty]

\* ------------------------------------------------------------------ debt extractor
MaxAmount == 1
MaxNodes == 4
MaxElements == 2

\* A text node of a transaction-text element: "<name> gives ", " to <name>"
\* (name as trimmed, "" when nothing but spaces is left), a text that
\* parses into an f32, or any other text.
TextNodes ==
    [kind : {"gives"}, name : {"", "Sid"}, amount : {0}]
        \cup [kind : {"to"}, name : {"", "Moses"}, amount : {0}]
        \cup [kind : {"float"}, name : {""},
              amount : {0 - MaxAmount, 0, MaxAmount}]
        \cup [kind : {"other"}, name : {""}, amount : {0}]

\* all_texts.iter().find(..) / find_map(..): the first text of the kind.
RECURSIVE Find(_, _)
Find(all_texts, kind) ==
    IF all_texts = Empty THEN Empty
    ELSE IF Head(all_texts).kind = kind THEN Some(Head(all_texts))
    ELSE Find(Tail(all_texts), kind)

\* extract_debt, as a Result.
NoDebt == [kind |-> "Err", who |-> "", how_much |-> 0, whom |-> ""]
extract_debt(element) ==
    LET who == Find(element, "gives")
        how_much == Find(element, "float")
        whom == Find(element, "to")
    IN  IF who = Empty THEN NoDebt
        ELSE IF how_much = Empty THEN NoDebt
        ELSE IF whom = Empty THEN NoDebt
        ELSE IF who[1].name = "" \/ whom[1].name = "" THEN NoDebt
        ELSE [kind |-> "Ok", who |-> who[1].name,
              how_much |-> how_much[1].amount, whom |-> whom[1].name]

\* filter_map(|t| extract_debt(&t).ok()): a failure is dropped.
filter_map_resets(collected, result) ==
    IF result.kind = "Ok"
    THEN Append(collected, [who |-> result.who, how_much |-> result.how_much,
                            whom |-> result.whom])
    ELSE Empty
filter_map(collected, result) ==
    IF result.kind = "Ok"
    THEN Append(collected, [who |-> result.who, how_much |-> result.how_much,
                            whom |-> result.whom])
    ELSE collected

\* ------------------------------------------------------------------ parsers
\* No parser is being called.
InitNoParser ==
    /\ extract_departures = Empty
    /\ parse_next_event = Empty
    /\ extract_debts = Empty

\* ------------------------------------------------------------------ init
InitBackoff ==
    /\ eb = ExponentialBackoff_new(TestBaseDuration, TestFirstErrorDuration,
                                   TestMaxErrorDuration)
    /\ streak = 0
    /\ last_call = "new"
    /\ backoff = [u \in Sources |->
                     ExponentialBackoff_new(TestBaseDuration,
                         TestFirstErrorDuration, TestMaxErrorDuration)]

\* TransportUpdater::new: transport_next_update is the default.
InitTransit ==
    /\ instant = 0
    /\ transport_next_update = get_default_next_update_time(0)
    /\ next_update_time = NoInstant
    /\ transit_op = [name |-> "new", update_at |-> 0]

\* start_backgound_updates spawns two loops; a deployment of the model runs
\* any two of the four updaters, in any modes.
Configurations == {c \in SUBSET Updaters : Cardinality(c) = 2}

InitStore ==
    /\ screen_content = DefaultContent
    /\ error_bit = FALSE
    /\ lock_holder = NoTask
    /\ poisoned = FALSE
    /\ local = [u \in Updaters |-> Empty]
    /\ inflight = [u \in Updaters |-> 0]
    /\ timer = [u \in Updaters |-> 0]
    /\ last_poll_failed = [u \in Sources |-> FALSE]
    /\ reply = DefaultContent
    /\ hash_reply = ErrorHash

InitService ==
    /\ InitStore
    /\ configured \in Configurations
    /\ update_mode \in [Sources -> Modes]
    /\ \A u \in Sources \ configured : update_mode[u] = "Dummy"
    /\ pc = [t \in Tasks |-> IF t \in Updaters THEN "sleep" ELSE "idle"]
    /\ wall_clock \in 0..(MinuteModulus - 1)

\* No polling client is connected.
InitNoPoller ==
    /\ poll_pc = "free"
    /\ hash = ErrorHash
    /\ minutes = 0
    /\ new_hash = ErrorHash
    /\ sent = NoRequests
    /\ last_hash = NoHashYet
    /\ content = Empty

Init ==
    /\ InitService
    /\ InitNoPoller
    /\ InitBackoff
    /\ InitTransit
    /\ InitNoParser

\* ------------------------------------------------------------------ loops
\* interval.tick().await returned: update() is called.
Tick(u) ==
    /\ u \in configured
    /\ LoopAwaitsUpdate(u)
    /\ pc[u] # "dead"
    /\ timer[u] = 0
    /\ inflight[u] < MaxInflight
    /\ timer' = [timer EXCEPT ![u] = IntervalPeriod(u)]
    /\ inflight' = [inflight EXCEPT ![u] = @ + 1]
    /\ IF u = "clock"
       THEN /\ pc' = [pc EXCEPT ![u] = "ready"]
            /\ local' = [local EXCEPT ![u] = <<wall_clock>>]
       ELSE /\ pc' = [pc EXCEPT ![u] = "fetch"]
            /\ local' = [local EXCEPT ![u] = Empty]
    /\ UNCHANGED <<screen_content, error_bit, lock_holder, poisoned,
                   update_mode, configured, wall_clock, last_poll_failed,
                   reply, hash_reply>>
    /\ UNCHANGED <<poller_vars, backoff_vars, transit_vars>>
    /\ UNCHANGED parser_vars

\* The fetch (or the dummy data generation) of update() completed.
FetchDone(u) ==
    /\ u \in Sources
    /\ pc[u] = "fetch"
    /\ \E o \in FetchOutcomes(u) :
          /\ local' = [local EXCEPT ![u] = o.value]
          /\ last_poll_failed' = [last_poll_failed EXCEPT ![u] = o.failed]
          /\ error_bit' = ErrorBitAfter(u, o.failed)
          /\ backoff' = [backoff EXCEPT ![u] = ReportOutcome(@, o.failed)]
          /\ update_mode' = [update_mode EXCEPT ![u] = ModeAfterUpdate(@, o.failed)]
    /\ pc' = [pc EXCEPT ![u] = "ready"]
    /\ UNCHANGED <<screen_content, lock_holder, poisoned,
                   configured, inflight, timer, wall_clock, reply, hash_reply>>
    /\ UNCHANGED <<eb, streak, last_call>>
    /\ UNCHANGED <<poller_vars, transit_vars>>
    /\ UNCHANGED parser_vars

\* screen_content.lock() in update(): Ok(guard), or Err on a poisoned lock,
\* which is logged and ends update() without a write.
Lock(u) ==
    /\ u \in Updaters
    /\ pc[u] = "ready"
    /\ LockFree
    /\ IF poisoned
       THEN /\ pc' = [pc EXCEPT ![u] = AfterUpdate(u \in Sources /\ last_poll_failed[u])]
            /\ inflight' = [inflight EXCEPT ![u] = @ - 1]
            /\ local' = [local EXCEPT ![u] = Empty]
            /\ UNCHANGED lock_holder
       ELSE /\ pc' = [pc EXCEPT ![u] = "locked"]
            /\ lock_holder' = u
            /\ UNCHANGED <<inflight, local>>
    /\ UNCHANGED <<screen_content, error_bit, poisoned, update_mode,
                   configured, timer, wall_clock, last_poll_failed, reply,
                   hash_reply>>
    /\ UNCHANGED <<poller_vars, backoff_vars, transit_vars>>
    /\ UNCHANGED parser_vars

\* The field assignment under the guard; the guard is dropped and update()
\* returns to the loop.
WriteUnlock(u) ==
    /\ u \in Updaters
    /\ pc[u] = "locked"
    /\ screen_content' = WriteField(u, local[u])
    /\ lock_holder' = GuardAfterUse(u)
    /\ pc' = [pc EXCEPT ![u] = AfterUpdate(u \in Sources /\ last_poll_failed[u])]
    /\ inflight' = [inflight EXCEPT ![u] = @ - 1]
    /\ local' = [local EXCEPT ![u] = Empty]
    /\ last_hash' = NoHashYet
    /\ UNCHANGED <<error_bit, poisoned, update_mode, configured, timer,
                   wall_clock, last_poll_failed, reply, hash_reply>>
    /\ UNCHANGED <<poll_pc, hash, minutes, new_hash, sent, content>>
    /\ UNCHANGED <<backoff_vars, transit_vars>>
    /\ UNCHANGED parser_vars

\* One time unit passes: the minute changes and every interval gets closer.
Advance ==
    /\ wall_clock' = (wall_clock + 1) % MinuteModulus
    /\ timer' = [u \in Updaters |-> Max(timer[u] - 1, 0)]
    /\ UNCHANGED <<screen_content, error_bit, lock_holder, poisoned,
                   update_mode, configured, pc, local, inflight,
                   last_poll_failed, reply, hash_reply>>
    /\ UNCHANGED <<poller_vars, backoff_vars, transit_vars>>
    /\ UNCHANGED parser_vars

\* ------------------------------------------------------------------ queries
\* get_screen_content: lock(); on a poisoned lock the default reply with
\* error = true is returned.
ContentLock ==
    /\ pc[Client] = "idle"
    /\ poll_pc \in {"free", "full_request"}
    /\ LockFree
    /\ IF poisoned
       THEN /\ reply' = PoisonedReply
            /\ pc' = [pc EXCEPT ![Client] = "content_replied"]
            /\ UNCHANGED lock_holder
       ELSE /\ reply' = DefaultContent
            /\ pc' = [pc EXCEPT ![Client] = "cloning"]
            /\ lock_holder' = Client
    /\ UNCHANGED <<screen_content, error_bit, poisoned, update_mode,
                   configured, local, inflight, timer, wall_clock,
                   last_poll_failed, hash_reply>>
    /\ sent' = IF Polling THEN [sent EXCEPT !.full = @ + 1] ELSE sent
    /\ UNCHANGED <<poll_pc, hash, minutes, new_hash, last_hash, content>>
    /\ UNCHANGED <<backoff_vars, transit_vars>>
    /\ UNCHANGED parser_vars

\* content.clone() copies the fields one after the other: first part.
ContentCloneHead ==
    /\ pc[Client] = "cloning"
    /\ reply' = [reply EXCEPT !.now = screen_content.now,
                              !.brightness = screen_content.brightness,
                              !.kitty_debts = screen_content.kitty_debts]
    /\ pc' = [pc EXCEPT ![Client] = "cloning_tail"]
    /\ UNCHANGED <<screen_content, error_bit, lock_holder, poisoned,
                   update_mode, configured, local, inflight, timer,
                   wall_clock, last_poll_failed, hash_reply>>
    /\ UNCHANGED <<poller_vars, backoff_vars, transit_vars>>
    /\ UNCHANGED parser_vars

\* Rest of the clone; the guard is dropped at the end of the match.
ContentCloneTail ==
    /\ pc[Client] = "cloning_tail"
    /\ reply' = [reply EXCEPT
                   !.bus_departures = screen_content.bus_departures,
                   !.next_upcoming_event = screen_content.next_upcoming_event,
                   !.error = screen_content.error]
    /\ lock_holder' = GuardAfterUse(Client)
    /\ pc' = [pc EXCEPT ![Client] = "content_replied"]
    /\ UNCHANGED <<screen_content, error_bit, poisoned, update_mode,
                   configured, local, inflight, timer, wall_clock,
                   last_poll_failed, hash_reply>>
    /\ UNCHANGED <<poller_vars, backoff_vars, transit_vars>>
    /\ UNCHANGED parser_vars

\* Ok(Response::new(reply)) is sent; the handler is ready for a new request.
ContentReturn ==
    /\ pc[Client] = "content_replied"
    /\ reply' = DefaultContent
    /\ pc' = [pc EXCEPT ![Client] = "idle"]
    /\ UNCHANGED <<screen_content, error_bit, lock_holder, poisoned,
                   update_mode, configured, local, inflight, timer,
                   wall_clock, last_poll_failed, hash_reply>>
    /\ poll_pc' = IF Polling THEN "wait" ELSE poll_pc
    /\ sent' = NoRequests
    /\ content' = IF Polling THEN KeptContent(content, reply) ELSE content
    /\ UNCHANGED <<hash, minutes, new_hash, last_hash>>
    /\ UNCHANGED <<backoff_vars, transit_vars>>
    /\ UNCHANGED parser_vars

\* get_hash: content.lock()?; a poisoned lock makes get_screen_hash answer 0.
HashLock ==
    /\ pc[Client] = "idle"
    /\ poll_pc \in {"free", "hash_request"}
    /\ LockFree
    /\ IF poisoned
       THEN /\ hash_reply' = ErrorHash
            /\ pc' = [pc EXCEPT ![Client] = "hash_replied"]
            /\ UNCHANGED lock_holder
       ELSE /\ pc' = [pc EXCEPT ![Client] = "encoding"]
            /\ lock_holder' = Client
            /\ UNCHANGED hash_reply
    /\ UNCHANGED <<screen_content, error_bit, poisoned, update_mode,
                   configured, local, inflight, timer, wall_clock,
                   last_poll_failed, reply>>
    /\ sent' = IF Polling THEN [sent EXCEPT !.hash = @ + 1] ELSE sent
    /\ UNCHANGED <<poll_pc, hash, minutes, new_hash, last_hash, content>>
    /\ UNCHANGED <<backoff_vars, transit_vars>>
    /\ UNCHANGED parser_vars

\* content.encode(&mut buf)?; drop(content); buf.hash(); hasher.finish().
HashEncode ==
    /\ pc[Client] = "encoding"
    /\ screen_content' = StoreAfterHash(screen_content, wall_clock)
    /\ hash_reply' = Hash(Encode(screen_content'))
    /\ lock_holder' = GuardAfterUse(Client)
    /\ pc' = [pc EXCEPT ![Client] = "hash_replied"]
    /\ last_hash' = IF Polling
                    THEN [valid |-> TRUE, clock |-> wall_clock,
                          hash |-> hash_reply', error_bit |-> error_bit]
                    ELSE last_hash
    /\ UNCHANGED <<error_bit, poisoned, update_mode,
                   configured, local, inflight, timer, wall_clock,
                   last_poll_failed, reply>>
    /\ UNCHANGED <<poll_pc, hash, minutes, new_hash, sent, content>>
    /\ UNCHANGED <<backoff_vars, transit_vars>>
    /\ UNCHANGED parser_vars

HashReturn ==
    /\ pc[Client] = "hash_replied"
    /\ hash_reply' = ErrorHash
    /\ pc' = [pc EXCEPT ![Client] = "idle"]
    /\ UNCHANGED <<screen_content, error_bit, lock_holder, poisoned,
                   update_mode, configured, local, inflight, timer,
                   wall_clock, last_poll_failed, reply>>
    /\ IF Polling
       THEN new_hash' = hash_reply /\ poll_pc' = "compare"
       ELSE UNCHANGED <<new_hash, poll_pc>>
    /\ UNCHANGED <<hash, minutes, sent, last_hash, content>>
    /\ UNCHANGED <<backoff_vars, transit_vars>>
    /\ UNCHANGED parser_vars

\* interval.tick().await returned in the client: a hash request is due.
ClientTick ==
    /\ poll_pc = "wait"
    /\ poll_pc' = "hash_request"
    /\ sent' = NoRequests
    /\ UNCHANGED <<screen_content, error_bit, lock_holder, poisoned,
                   update_mode, configured, pc, local, inflight, timer,
                   wall_clock, last_poll_failed, reply, hash_reply>>
    /\ UNCHANGED <<hash, minutes, new_hash, last_hash, content>>
    /\ UNCHANGED <<backoff_vars, transit_vars>>
    /\ UNCHANGED parser_vars

\* The condition of the if: the clock is read once here.  new_hash is a
\* binding of the loop body and is gone when the iteration ends.
ClientCompare ==
    /\ poll_pc = "compare"
    /\ IF NeedFullContent(hash, new_hash, minutes, wall_clock)
       THEN poll_pc' = "store" /\ UNCHANGED <<new_hash, sent>>
       ELSE poll_pc' = "wait" /\ new_hash' = ErrorHash /\ sent' = NoRequests
    /\ UNCHANGED <<screen_content, error_bit, lock_holder, poisoned,
                   update_mode, configured, pc, local, inflight, timer,
                   wall_clock, last_poll_failed, reply, hash_reply>>
    /\ UNCHANGED <<hash, minutes, last_hash, content>>
    /\ UNCHANGED <<backoff_vars, transit_vars>>
    /\ UNCHANGED parser_vars

\* hash = new_hash; minutes = Local::now().minute(); the clock is read again.
ClientStore ==
    /\ poll_pc = "store"
    /\ hash' = new_hash
    /\ minutes' = wall_clock
    /\ new_hash' = ErrorHash
    /\ poll_pc' = "full_request"
    /\ UNCHANGED <<screen_content, error_bit, lock_holder, poisoned,
                   update_mode, configured, pc, local, inflight, timer,
                   wall_clock, last_poll_failed, reply, hash_reply>>
    /\ UNCHANGED <<sent, last_hash, content>>
    /\ UNCHANGED <<backoff_vars, transit_vars>>
    /\ UNCHANGED parser_vars

\* ------------------------------------------------------------------ next
Next ==
    \/ \E u \in Updaters : Tick(u)
    \/ \E u \in Updaters : FetchDone(u)
    \/ \E u \in Updaters : Lock(u)
    \/ \E u \in Updaters : WriteUnlock(u)
    \/ Advance
    \/ ContentLock
    \/ ContentCloneHead
    \/ ContentCloneTail
    \/ ContentReturn
    \/ HashLock
    \/ HashEncode
    \/ HashReturn

Spec == Init /\ [][Next]_vars

\* ------------------------------------------------------------------ polling
\* The service as start_backgound_updates runs it (the clock loop and the
\* dummy Kitty loop) with one polling client connected.
ClientLoops == {"clock", "kitty"}

InitPoller ==
    /\ poll_pc = "wait"
    /\ hash = ErrorHash
    /\ minutes = wall_clock
    /\ new_hash = ErrorHash
    /\ sent = NoRequests
    /\ last_hash = NoHashYet
    /\ content = Empty

InitClient ==
    /\ InitService
    /\ configured = ClientLoops
    /\ \A u \in Sources : update_mode[u] = "Dummy"
    /\ InitPoller
    /\ InitBackoff
    /\ InitTransit
    /\ InitNoParser

NextClient == Next \/ ClientTick \/ ClientCompare \/ ClientStore

SpecClient == InitClient /\ [][NextClient]_vars

\* ------------------------------------------------------------------ backoff
\* An ExponentialBackoff on its own, driven as the unit tests drive it:
\* constructed with any three durations, then any sequence of set_error()
\* and set_success().  The service is constructed and no loop is spawned.
InitIdleService ==
    /\ InitStore
    /\ configured = {}
    /\ update_mode = [u \in Sources |-> "Dummy"]
    /\ pc = [t \in Tasks |-> IF t \in Updaters THEN "sleep" ELSE "idle"]
    /\ wall_clock = 0
    /\ InitNoPoller

InitBackoffTests ==
    /\ InitIdleService
    /\ \E base \in Durations, first_error \in Durations,
          max_error \in Durations :
          eb = ExponentialBackoff_new(base, first_error, max_error)
    /\ streak = 0
    /\ last_call = "new"
    /\ backoff = [u \in Sources |->
                     ExponentialBackoff_new(TestBaseDuration,
                         TestFirstErrorDuration, TestMaxErrorDuration)]
    /\ InitTransit
    /\ InitNoParser

BackoffSetError ==
    /\ streak < MaxStreak
    /\ eb' = set_error(eb)
    /\ streak' = streak + 1
    /\ last_call' = "set_error"
    /\ UNCHANGED <<screen_content, error_bit, lock_holder, poisoned,
                   update_mode, configured, pc, local, inflight, timer,
                   wall_clock, last_poll_failed, reply, hash_reply>>
    /\ UNCHANGED <<backoff, poller_vars, transit_vars>>
    /\ UNCHANGED parser_vars

BackoffSetSuccess ==
    /\ eb' = set_success(eb)
    /\ streak' = 0
    /\ last_call' = "set_success"
    /\ UNCHANGED <<screen_content, error_bit, lock_holder, poisoned,
                   update_mode, configured, pc, local, inflight, timer,
                   wall_clock, last_poll_failed, reply, hash_reply>>
    /\ UNCHANGED <<backoff, poller_vars, transit_vars>>
    /\ UNCHANGED parser_vars

NextBackoff == BackoffSetError \/ BackoffSetSuccess

SpecBackoff == InitBackoffTests /\ [][NextBackoff]_vars

\* The same policy when the caller's operation keeps failing: set_error() is
\* called again and again, up to the longest run, unless a set_success()
\* comes in between.
SpecBackoffLive == SpecBackoff /\ WF_vars(BackoffSetError)

\* ------------------------------------------------------------------ transit
\* A TransportUpdater on its own: update() and get_next_update_time() are
\* called in any order while time passes.  No loop is spawned.
InitTransport ==
    /\ InitStore
    /\ configured = {}
    /\ update_mode \in [Sources -> Modes]
    /\ \A u \in Sources \ {"transport"} : update_mode[u] = "Dummy"
    /\ pc = [t \in Tasks |-> IF t \in Updaters THEN "sleep" ELSE "idle"]
    /\ wall_clock = 0
    /\ InitNoPoller
    /\ InitBackoff
    /\ InitTransit
    /\ InitNoParser

\* The value update() binds to destinations, and the new
\* transport_next_update, for every outcome of the fetch.
TransportOutcomes ==
    IF update_mode["transport"] = "Dummy"
    THEN {[value |-> <<[destination_enum |-> "Flon",
                        seconds |-> instant + 60 * sec]>>,
           failed |-> FALSE,
           next_update |-> transport_next_update] : sec \in 0..MaxAhead}
    ELSE {[value |-> SortByDeparture(ds),
           failed |-> FALSE,
           next_update |-> set_next_update_time(SortByDeparture(ds), instant)] :
              ds \in DepartureLists(instant)}
         \cup {[value |-> FailureValue("transport"),
                 failed |-> TRUE,
                 next_update |-> get_default_next_update_time(instant)]}

\* TransportUpdater::update, from the fetch to the write under the lock.
TransportUpdate ==
    /\ LockFree
    /\ ~poisoned
    /\ \E o \in TransportOutcomes :
          /\ transport_next_update' = o.next_update
          /\ last_poll_failed' = [last_poll_failed EXCEPT !["transport"] = o.failed]
          /\ screen_content' = WriteField("transport", o.value)
          /\ backoff' = [backoff EXCEPT !["transport"] = ReportOutcome(@, o.failed)]
    /\ transit_op' = [name |-> "update", update_at |-> instant]
    /\ UNCHANGED <<error_bit, lock_holder, poisoned, update_mode, configured,
                   pc, local, inflight, timer, wall_clock, reply, hash_reply>>
    /\ UNCHANGED <<instant, next_update_time, eb, streak, last_call, poller_vars>>
    /\ UNCHANGED parser_vars

TransportGetNextUpdateTime ==
    /\ next_update_time' = get_next_update_time(update_mode["transport"],
                                                transport_next_update, instant)
    /\ transit_op' = [transit_op EXCEPT !.name = "get_next_update_time"]
    /\ UNCHANGED <<screen_content, error_bit, lock_holder, poisoned,
                   update_mode, configured, pc, local, inflight, timer,
                   wall_clock, last_poll_failed, reply, hash_reply>>
    /\ UNCHANGED <<instant, transport_next_update, backoff_vars, poller_vars>>
    /\ UNCHANGED parser_vars

\* One second passes.
TransportTime ==
    /\ instant < MaxInstant
    /\ instant' = instant + 1
    /\ transit_op' = [transit_op EXCEPT !.name = "wait"]
    /\ UNCHANGED <<screen_content, error_bit, lock_holder, poisoned,
                   update_mode, configured, pc, local, inflight, timer,
                   wall_clock, last_poll_failed, reply, hash_reply>>
    /\ UNCHANGED <<transport_next_update, next_update_time, backoff_vars,
                   poller_vars>>
    /\ UNCHANGED parser_vars

NextTransport == TransportUpdate \/ TransportGetNextUpdateTime \/ TransportTime

SpecTransport == InitTransport /\ [][NextTransport]_vars

\* ------------------------------------------------------------------ updaters
\* Any one of the three source updaters on its own, in either mode:
\* update() and get_next_update_time() are called in any order while time
\* passes.  configured holds the updater that was constructed.
InitUpdaters ==
    /\ InitStore
    /\ \E u \in Sources : configured = {u}
    /\ update_mode \in [Sources -> Modes]
    /\ \A u \in Sources \ configured : update_mode[u] = "Dummy"
    /\ pc = [t \in Tasks |-> IF t \in Updaters THEN "sleep" ELSE "idle"]
    /\ wall_clock = 0
    /\ InitNoPoller
    /\ InitBackoff
    /\ InitTransit
    /\ InitNoParser

\* KittyUpdater::update and GcalUpdater::update, from the fetch to the write
\* under the lock.
FixedUpdate(u) ==
    /\ u \in configured
    /\ LockFree
    /\ ~poisoned
    /\ \E o \in FetchOutcomes(u) :
          /\ last_poll_failed' = [last_poll_failed EXCEPT ![u] = o.failed]
          /\ error_bit' = ErrorBitAfter(u, o.failed)
          /\ screen_content' = WriteField(u, o.value)
          /\ backoff' = [backoff EXCEPT ![u] = ReportOutcome(@, o.failed)]
    /\ transit_op' = [name |-> u, update_at |-> instant]
    /\ UNCHANGED <<lock_holder, poisoned, update_mode, configured, pc, local,
                   inflight, timer, wall_clock, reply, hash_reply>>
    /\ UNCHANGED <<instant, transport_next_update, next_update_time, eb,
                   streak, last_call, poller_vars>>
    /\ UNCHANGED parser_vars

FixedGetNextUpdateTime(u) ==
    /\ u \in configured
    /\ next_update_time' = fixed_next_update_time(u, update_mode[u], instant)
    /\ transit_op' = [transit_op EXCEPT !.name = u \o ".get_next_update_time"]
    /\ UNCHANGED <<service_vars, poller_vars, backoff_vars, parser_vars>>
    /\ UNCHANGED <<instant, transport_next_update>>

NextUpdaters ==
    \/ "transport" \in configured /\ TransportUpdate
    \/ "transport" \in configured /\ TransportGetNextUpdateTime
    \/ TransportTime
    \/ \E u \in {"kitty", "gcal"} : FixedUpdate(u)
    \/ \E u \in {"kitty", "gcal"} : FixedGetNextUpdateTime(u)

SpecUpdaters == InitUpdaters /\ [][NextUpdaters]_vars

\* ------------------------------------------------------------------ poison
\* A task panics while it owns the guard: the guard is dropped by the
\* unwinding, the Mutex is poisoned and the task ends.
PoisonLock ==
    /\ lock_holder # NoTask
    /\ poisoned' = TRUE
    /\ lock_holder' = NoTask
    /\ pc' = [pc EXCEPT ![lock_holder] =
                 IF lock_holder = Client THEN "idle" ELSE "dead"]
    /\ inflight' = [u \in Updaters |->
                      IF u = lock_holder THEN inflight[u] - 1 ELSE inflight[u]]
    /\ reply' = DefaultContent
    /\ UNCHANGED <<screen_content, error_bit, update_mode, configured, local,
                   timer, wall_clock, last_poll_failed, hash_reply>>
    /\ UNCHANGED <<poller_vars, backoff_vars, transit_vars>>
    /\ UNCHANGED parser_vars

NextPoison == Next \/ PoisonLock

SpecPoison == Init /\ [][NextPoison]_vars

\* ------------------------------------------------------------------ fairness
\* A Real-mode deployment of two unreliable sources, for the liveness of the
\* loops.
LiveLoops == {"kitty", "gcal"}

InitLive ==
    /\ Init
    /\ wall_clock = 0
    /\ configured = LiveLoops
    /\ \A u \in LiveLoops : update_mode[u] = "Real"

\* The runtime runs every ready task, a fetch ends (the HTTP client times
\* out), a task waiting for the Mutex gets it eventually, and time passes.
LoopStep(u) == Tick(u) \/ FetchDone(u) \/ Lock(u) \/ WriteUnlock(u)
HandlerStep == ContentCloneHead \/ ContentCloneTail \/ HashEncode

Fairness ==
    /\ \A u \in Updaters : SF_vars(LoopStep(u))
    /\ WF_vars(HandlerStep)
    /\ WF_vars(Advance)

SpecLive == InitLive /\ [][Next]_vars /\ Fairness

\* ------------------------------------------------------------------ extract_departures
\* The loop of extract_departures over the events of a response, one
\* action per event the loop acts on; the events come in any order and
\* number. Events of other tags change nothing and are left out. The call
\* is a record of its locals (pc, read_event, departure, departures,
\* new_departure, result) and of the history of the response: entry is what
\* the entry being read contained so far, complete the times of the complete
\* entries per destination, bad_time whether a time text off the grammar was
\* read.
InitExtract ==
    /\ InitIdleService
    /\ InitBackoff
    /\ InitTransit
    /\ \E config \in {TestDestinationPoints, Tail(TestDestinationPoints)} :
          extract_departures =
              [pc |-> "loop",
               destination_points |-> config,
               read_event |-> "none",
               stop_text |-> "none",
               departure |-> DepartureBuilder_default,
               departures |-> [d \in Destinations |-> Empty],
               new_departure |-> Empty,
               result |-> [kind |-> "none", value |-> {}],
               entry |-> NoEntry,
               complete |-> [d \in Destinations |-> {}],
               bad_time |-> FALSE]
    /\ parse_next_event = Empty
    /\ extract_debts = Empty

\* Start of ojp:TimetabledTime or ojp:EstimatedTime, and the event after it.
ExtractTime ==
    /\ extract_departures.pc = "loop"
    /\ \E tag \in {"TimetabledTime", "EstimatedTime"}, text \in TimeTexts :
          extract_departures' =
              IF text.class = "none"
              THEN [extract_departures EXCEPT !.read_event = tag, !.stop_text = "none",
                                              !.new_departure = Empty]
              ELSE IF get_time(text).kind = "Ok"
              THEN [extract_departures EXCEPT
                       !.read_event = tag, !.stop_text = "none",
                       !.new_departure = Empty,
                       !.departure.departure_time = Some(get_time(text).value),
                       !.entry[tag] = Some(get_time(text).value)]
              ELSE [extract_departures EXCEPT
                       !.read_event = tag, !.stop_text = "none",
                       !.new_departure = Empty,
                       !.bad_time = TRUE,
                       !.pc = IF get_time(text).kind = "Err"
                              THEN "returned" ELSE "panicked",
                       !.result = IF get_time(text).kind = "Err"
                                  THEN [kind |-> "Err", value |-> {}] ELSE @]
    /\ UNCHANGED <<service_vars, poller_vars, backoff_vars, transit_vars,
                   parse_next_event, extract_debts>>

\* Start of ojp:DestinationStopPointRef, and the event after it: a text that
\* does not unescape or is not a u32 breaks out of the loop. stop_text keeps
\* the kind of text this event read.
AfterStopText_skips(f, text) ==
    IF text.class = "text"
    THEN [f EXCEPT !.read_event = "DestinationStopPointRef",
                   !.stop_text = text.class,
                   !.new_departure = Empty,
                   !.departure.dest_id = Some(text.value),
                   !.entry.dest_id = Some(text.value)]
    ELSE [f EXCEPT !.read_event = "DestinationStopPointRef",
                   !.stop_text = text.class,
                   !.new_departure = Empty]
AfterStopText(f, text) ==
    IF text.class = "none"
    THEN [f EXCEPT !.read_event = "DestinationStopPointRef",
                   !.stop_text = text.class,
                   !.new_departure = Empty]
    ELSE IF text.class = "text"
    THEN [f EXCEPT !.read_event = "DestinationStopPointRef",
                   !.stop_text = text.class,
                   !.new_departure = Empty,
                   !.departure.dest_id = Some(text.value),
                   !.entry.dest_id = Some(text.value)]
    ELSE [f EXCEPT !.read_event = "DestinationStopPointRef",
                   !.stop_text = text.class,
                   !.new_departure = Empty,
                   !.pc = "returned",
                   !.result = Collected(f.departures)]

ExtractDestinationStopPointRef ==
    /\ extract_departures.pc = "loop"
    /\ \E text \in StopTexts :
          extract_departures' = AfterStopText(extract_departures, text)
    /\ UNCHANGED <<service_vars, poller_vars, backoff_vars, transit_vars,
                   parse_next_event, extract_debts>>

\* The time of an entry and the destination its stop ID maps to, for the
\* entry call f is reading.
EntryTime(e) ==
    IF e.EstimatedTime # Empty THEN e.EstimatedTime ELSE e.TimetabledTime
EntryDestination(f) ==
    IF f.entry.dest_id = Empty THEN Empty
    ELSE MatchingPoint(f.destination_points, f.entry.dest_id[1])
Qualifies(f) == EntryTime(f.entry) # Empty /\ EntryDestination(f) # Empty

\* End of ojp:StopEventResult: the constructed departure is inspected and
\* merged; the builder is left as it is.
ExtractEndStopEventResult ==
    /\ extract_departures.pc = "loop"
    /\ LET f == extract_departures
           actual_enum ==
               IF f.departure.departure_time # Empty
                   /\ f.departure.dest_id # Empty
               THEN MatchingPoint(f.destination_points, f.departure.dest_id[1])
               ELSE Empty
           new == IF actual_enum = Empty THEN Empty
                  ELSE Some([destination_enum |-> actual_enum[1],
                             seconds |-> f.departure.departure_time[1]])
       IN  extract_departures' =
               [f EXCEPT
                   !.read_event = "StopEventResult",
                   !.stop_text = "none",
                   !.new_departure = new,
                   !.departures = IF new = Empty THEN @
                                  ELSE InsertIfEarlier(@, new[1]),
                   !.complete = IF Qualifies(f)
                                THEN [@ EXCEPT ![EntryDestination(f)[1]] =
                                          @ \cup {EntryTime(f.entry)[1]}]
                                ELSE @,
                   !.entry = NoEntry]
    /\ UNCHANGED <<service_vars, poller_vars, backoff_vars, transit_vars,
                   parse_next_event, extract_debts>>

\* Event::Eof, or an error of the reader: the loop ends and what was
\* collected is returned.
ExtractEof ==
    /\ extract_departures.pc = "loop"
    /\ extract_departures' =
           [extract_departures EXCEPT
               !.read_event = "Eof",
               !.stop_text = "none",
               !.new_departure = Empty,
               !.pc = "returned",
               !.result = Collected(extract_departures.departures)]
    /\ UNCHANGED <<service_vars, poller_vars, backoff_vars, transit_vars,
                   parse_next_event, extract_debts>>

NextExtract ==
    \/ ExtractTime
    \/ ExtractDestinationStopPointRef
    \/ ExtractEndStopEventResult
    \/ ExtractEof

SpecExtract == InitExtract /\ [][NextExtract]_vars

\* ------------------------------------------------------------------ parse_next_event
\* The while loop of parse_next_event over the lines of a feed of up to
\* MaxLines lines, one action per line. The call is a record of its locals
\* (pc, lines, first_upcoming_event, result) and of the feed it was given.
InitIcs ==
    /\ InitIdleService
    /\ InitBackoff
    /\ InitTransit
    /\ extract_departures = Empty
    /\ \E ics \in UNION {[1..n -> IcsLines] : n \in 0..MaxLines} :
          parse_next_event =
              [pc |-> "lines",
               feed |-> ics,
               lines |-> ics,
               first_upcoming_event |-> Empty,
               result |-> [kind |-> "none", value |-> Empty,
                           message |-> Empty]]
    /\ extract_debts = Empty

\* while let Some(line) = lines.next() { .. }
ParseLine ==
    /\ parse_next_event.pc = "lines"
    /\ parse_next_event.lines # Empty
    /\ LET line == Head(parse_next_event.lines)
       IN  parse_next_event' =
               IF EndsScan(line)
               THEN [parse_next_event EXCEPT
                        !.lines = Tail(@),
                        !.pc = "returned",
                        !.result = OkEvent(parse_next_event.first_upcoming_event)]
               ELSE IF line.kind = "DTSTART" /\ ParseTimestamp(line).kind = "Err"
               THEN [parse_next_event EXCEPT
                        !.lines = Tail(@),
                        !.pc = "returned",
                        !.result = [ParseTimestamp(line) EXCEPT !.value = Empty]]
               ELSE [parse_next_event EXCEPT
                        !.lines = Tail(@),
                        !.first_upcoming_event = AfterLine(@, line)]
    /\ UNCHANGED <<service_vars, poller_vars, backoff_vars, transit_vars,
                   extract_departures, extract_debts>>

\* lines.next() is None: Ok(first_upcoming_event).
ParseReturn ==
    /\ parse_next_event.pc = "lines"
    /\ parse_next_event.lines = Empty
    /\ parse_next_event' =
           [parse_next_event EXCEPT
               !.pc = "returned",
               !.result = OkEvent(parse_next_event.first_upcoming_event)]
    /\ UNCHANGED <<service_vars, poller_vars, backoff_vars, transit_vars,
                   extract_departures, extract_debts>>

NextIcs == ParseLine \/ ParseReturn

SpecIcs == InitIcs /\ [][NextIcs]_vars

\* ------------------------------------------------------------------ extract_debts
\* extract_debts over the transaction-text elements of a page, one element
\* at a time: select() yields the next element, of up to MaxNodes text
\* nodes, extract_debt is applied to it, and the page ends after any number
\* of elements up to MaxElements. The call is a record of its locals (pc,
\* transaction, debts, result) and of the history of the page: selected
\* counts the elements, valid_debts lists the records of the valid ones.
InitDebts ==
    /\ InitIdleService
    /\ InitBackoff
    /\ InitTransit
    /\ extract_departures = Empty
    /\ parse_next_event = Empty
    /\ extract_debts =
           [pc |-> "select",
            transaction |-> Empty,
            selected |-> 0,
            debts |-> Empty,
            valid_debts |-> Empty,
            result |-> [kind |-> "none", value |-> Empty]]

\* The record of an element that holds the three tokens with names that are
\* not empty: the name before " gives ", the amount, the name after " to ".
ValidDebt(element) ==
    LET First(kind) ==
            element[Minimum({i \in 1..Len(element) : element[i].kind = kind})]
        Has(kind) == \E i \in 1..Len(element) : element[i].kind = kind
    IN  IF Has("gives") /\ Has("float") /\ Has("to")
            /\ First("gives").name # "" /\ First("to").name # ""
        THEN <<[who |-> First("gives").name,
                how_much |-> First("float").amount,
                whom |-> First("to").name]>>
        ELSE Empty

\* parsed_body.select(&transaction_selector) yields an element.
SelectTransaction ==
    /\ extract_debts.pc = "select"
    /\ extract_debts.selected < MaxElements
    /\ \E element \in UNION {[1..n -> TextNodes] : n \in 0..MaxNodes} :
          extract_debts' = [extract_debts EXCEPT
                               !.transaction = Some(element),
                               !.selected = @ + 1,
                               !.pc = "extract"]
    /\ UNCHANGED <<service_vars, poller_vars, backoff_vars, transit_vars,
                   extract_departures, parse_next_event>>

\* filter_map(|t| extract_debt(&t)..ok())
ExtractDebt ==
    /\ extract_debts.pc = "extract"
    /\ extract_debts' =
           [extract_debts EXCEPT
               !.debts = filter_map(@, extract_debt(extract_debts.transaction[1])),
               !.valid_debts = @ \o ValidDebt(extract_debts.transaction[1]),
               !.transaction = Empty,
               !.pc = "select"]
    /\ UNCHANGED <<service_vars, poller_vars, backoff_vars, transit_vars,
                   extract_departures, parse_next_event>>

\* The iterator is exhausted: collect(), then Err if debts.is_empty(), else
\* Ok(debts).
ReturnDebts ==
    /\ extract_debts.pc = "select"
    /\ extract_debts' =
           [extract_debts EXCEPT
               !.result = IF extract_debts.debts = Empty
                          THEN [kind |-> "Err", value |-> Empty]
                          ELSE [kind |-> "Ok", value |-> extract_debts.debts],
               !.pc = "returned"]
    /\ UNCHANGED <<service_vars, poller_vars, backoff_vars, transit_vars,
                   extract_departures, parse_next_event>>

NextDebts == SelectTransaction \/ ExtractDebt \/ ReturnDebts

SpecDebts == InitDebts /\ [][NextDebts]_vars

\* ------------------------------------------------------------------ display
\* The service with the gCal loop, in either mode, as its one source of
\* changes, and the polling loop of rpi_client, which keeps the content it
\* fetched; a task may panic while it owns the guard.
InitDisplay ==
    /\ InitStore
    /\ configured = {"gcal"}
    /\ update_mode \in [Sources -> Modes]
    /\ \A u \in Sources \ configured : update_mode[u] = "Dummy"
    /\ pc = [t \in Tasks |-> IF t \in Updaters THEN "sleep" ELSE "idle"]
    /\ wall_clock \in 0..(MinuteModulus - 1)
    /\ poll_pc = "wait"
    /\ hash = InitialHash
    /\ minutes = wall_clock
    /\ new_hash = ErrorHash
    /\ sent = NoRequests
    /\ last_hash = NoHashYet
    /\ content = Some(Empty)
    /\ InitBackoff
    /\ InitTransit
    /\ InitNoParser

\* The client's interval is short against a minute and so is a request: the
\* minute changes only once the client has seen the current one.
MinutePasses == minutes = wall_clock /\ Advance

\* An updater panics while it owns the guard.
UpdaterPanics == lock_holder \in Updaters /\ PoisonLock

NextDisplay ==
    \/ \E u \in Updaters : Tick(u)
    \/ \E u \in Updaters : FetchDone(u)
    \/ \E u \in Updaters : Lock(u)
    \/ \E u \in Updaters : WriteUnlock(u)
    \/ UpdaterPanics
    \/ MinutePasses
    \/ ClientTick
    \/ HashLock
    \/ HashEncode
    \/ HashReturn
    \/ ClientCompare
    \/ ClientStore
    \/ ContentLock
    \/ ContentCloneHead
    \/ ContentCloneTail
    \/ ContentReturn

SpecDisplay == InitDisplay /\ [][NextDisplay]_vars

\* The runtime runs the client's task and the handlers, a task inside the
\* guard's scope leaves it, a task waiting for the Mutex gets it eventually,
\* and time passes.
FairnessDisplay ==
    /\ WF_vars(ClientTick \/ ClientCompare \/ ClientStore)
    /\ WF_vars(HandlerStep \/ HashReturn \/ ContentReturn)
    /\ SF_vars(HashLock \/ ContentLock)
    /\ \A u \in Updaters : WF_vars(WriteUnlock(u))
    /\ WF_vars(MinutePasses)

SpecDisplayLive == SpecDisplay /\ FairnessDisplay

\* ------------------------------------------------------------------ claims
InUpdate(u) == pc[u] \in {"fetch", "ready", "locked"}
UpdateReturns(u) == InUpdate(u) /\ pc'[u] = "sleep"
AllLoopsAsleep == \A u \in Updaters : pc[u] = "sleep"
CriticalPcs == {"locked", "cloning", "cloning_tail", "encoding"}

\* C1: once no update() is in progress, the shared error flag is true
\* exactly when the most recent poll of at least one source failed.
C1_ErrorFlagIsOrOfSources ==
    AllLoopsAsleep => (error_bit <=> \E u \in Sources : last_poll_failed[u])

\* C2: a Real-mode update() whose fetch or parse failed leaves its own
\* field of the snapshot exactly as it was before the call.
C2_FailureKeepsStaleData ==
    [][\A u \in Sources :
          (UpdateReturns(u) /\ update_mode[u] = "Real" /\ last_poll_failed[u])
              => screen_content'[OwnField(u)] = screen_content[OwnField(u)]]_vars

\* C3: when the Real-mode fetch or parse of any source updater failed, the
\* shared error flag is true once its update() has returned.
C3_FailureSetsErrorFlag ==
    [][\A u \in Sources :
          (UpdateReturns(u) /\ update_mode[u] = "Real" /\ last_poll_failed[u])
              => error_bit']_vars

\* C4: a step that changes a field of the snapshot is a write of the updater
\* that owns the guard, and the field is that updater's own field; every
\* other field is unchanged.
C4_UpdateWritesOwnFieldOnly ==
    [][\A f \in Fields :
          screen_content'[f] # screen_content[f]
              => (lock_holder \in Updaters /\ f = OwnField(lock_holder))]_vars

C4_Witness ==
    \E u \in Sources : \E v \in Updaters \ {u} :
        /\ pc[u] = "sleep" /\ pc[v] = "sleep"
        /\ last_poll_failed[u]
        /\ screen_content[OwnField(u)] = Empty
        /\ screen_content[OwnField(v)] # Empty

\* C5: the reply of a full-content query equals the store at the instant
\* the clone ends, although the clone is made field after field, and at no
\* time are two tasks inside a write, a clone or an encode at once.
C5_SnapshotIsAtomic ==
    /\ [][(pc[Client] = "cloning_tail" /\ pc'[Client] = "content_replied")
              => reply' = screen_content]_vars
    /\ [](Cardinality({t \in Tasks : pc[t] \in CriticalPcs}) <= 1)

C5_Witness ==
    /\ pc[Client] = "cloning_tail"
    /\ \E u \in Updaters :
          /\ pc[u] = "ready"
          /\ local[u] # screen_content[OwnField(u)]

\* C6: a full-content query made while the lock is poisoned is answered,
\* and the reply has the error flag set.
C6_PoisonedQueryAnswersError ==
    [][(pc[Client] = "idle" /\ poisoned
            /\ pc'[Client] \notin {"idle", "encoding", "hash_replied"})
          => (pc'[Client] = "content_replied" /\ reply'.error = TRUE)]_vars

C6_Witness ==
    /\ poisoned
    /\ pc[Client] = "content_replied"
    /\ reply.error = TRUE

\* C7: no updater ever has two update() calls in progress at once.
C7_PollsAreSequential == \A u \in Updaters : inflight[u] <= 1

\* the update is still running although the interval is due again
C7_Witness ==
    \E u \in Sources : InUpdate(u) /\ inflight[u] = 1 /\ timer[u] = 0

\* C8: the guard is owned only by a task that is inside its write, clone or
\* encode; a task that is sleeping, fetching, waiting for the lock or idle
\* never owns it.
C8_NoLockAcrossSuspension ==
    /\ \A t \in Tasks : pc[t] \notin CriticalPcs => lock_holder # t
    /\ lock_holder # NoTask => pc[lock_holder] \in CriticalPcs

C8_Witness ==
    \E u \in Sources : \E t \in Tasks \ {u} :
        /\ lock_holder = u /\ pc[u] = "locked"
        /\ pc[t] \in {"fetch", "ready"}

C10_WaitIsRequestedDelay ==
    [][\A u \in {"kitty", "gcal"} :
          UpdateReturns(u) => timer'[u] = NextPollDelay(u)]_vars

\* ------------------------------------------------------------------ C11-C14
HashQueryStep ==
    \/ pc[Client] = "idle" /\ pc'[Client] \in {"encoding", "hash_replied"}
    \/ pc[Client] = "encoding" /\ pc'[Client] = "hash_replied"
    \/ pc[Client] = "hash_replied" /\ pc'[Client] = "idle"
HashAnswered == pc[Client] = "encoding" /\ pc'[Client] = "hash_replied"
TickEnds == poll_pc \notin {"wait", "free"} /\ poll_pc' = "wait"

\* C11: on every tick the polling client sends exactly one hash query; it
\* goes on to a full-content query exactly when the received hash differs
\* from its stored hash or the local minute differs from its stored minute,
\* and then sends exactly one; the hash and the minute it stores for the
\* full fetch are the received hash and the minute read at that moment.
C11_ClientFetchesOnChange ==
    [][/\ TickEnds => sent.hash = 1
       /\ (poll_pc = "compare" /\ poll_pc' # "compare")
             => /\ poll_pc' \in {"store", "wait"}
                /\ poll_pc' = "store"
                      <=> (hash # new_hash \/ minutes # wall_clock)
                /\ poll_pc' = "wait" => sent.full = 0
       /\ (poll_pc = "store" /\ poll_pc' # "store")
             => /\ poll_pc' = "full_request"
                /\ hash' = new_hash
                /\ minutes' = wall_clock
       /\ (poll_pc = "full_request" /\ poll_pc' # "full_request")
             => /\ poll_pc' = "wait"
                /\ sent.full = 1
                /\ hash' = hash
                /\ minutes' = minutes]_vars

\* the full fetch is caused by the minute alone
C11_Witness ==
    /\ poll_pc = "store"
    /\ hash = new_hash
    /\ hash # ErrorHash
    /\ minutes # wall_clock

\* C12: a hash query answered at the same wall-clock minute as the previous
\* one, with no updater write to the store in between, returns the hash
\* the previous one returned.
C12_SameMinuteSameHash ==
    [][(HashAnswered /\ last_hash.valid /\ last_hash.clock = wall_clock)
          => hash_reply' = last_hash.hash]_vars

\* a second hash is being computed in the same minute, while an update is
\* about to write
C12_Witness ==
    /\ pc[Client] = "encoding"
    /\ last_hash.valid
    /\ last_hash.clock = wall_clock
    /\ last_hash.hash = hash
    /\ \E u \in Updaters : pc[u] = "ready" /\ local[u] # screen_content[OwnField(u)]

\* C13: a hash query answered at another wall-clock minute than the previous
\* one returns another hash, even when no updater wrote to the store in
\* between.
C13_MinuteChangesHash ==
    [][(HashAnswered /\ last_hash.valid /\ last_hash.clock # wall_clock)
          => hash_reply' # last_hash.hash]_vars

TestDurations ==
    /\ eb.base_duration = TestBaseDuration
    /\ eb.first_error_duration = TestFirstErrorDuration
    /\ eb.max_error_duration = TestMaxErrorDuration
TestBackoffSequence == <<1, 2, 4, 8, 16, 20, 20>>

\* C15: a newly constructed backoff policy is in normal mode and its current
\* duration is its base duration, whatever the three durations are.
C15_NewIsNormalAtBase ==
    last_call = "new"
        => (eb.is_error = FALSE /\ eb.current_duration = eb.base_duration)

C15_Witness ==
    /\ last_call = "new"
    /\ eb.base_duration > eb.max_error_duration
    /\ eb.first_error_duration # eb.base_duration
    /\ eb.current_duration = eb.base_duration

\* C16: set_error() always ends in error mode; the new current duration is
\* first_error when the policy was in normal mode and
\* min(2 * current, max_error) when it was in error mode; with the
\* durations 10, 1, 20 the successive failures give 1, 2, 4, 8, 16, 20, 20.
C16_SetErrorDoublesUpToMax ==
    /\ [][streak' = streak + 1
            => /\ eb'.is_error = TRUE
               /\ eb'.current_duration =
                     IF eb.is_error
                     THEN (IF 2 * eb.current_duration <= eb.max_error_duration
                           THEN 2 * eb.current_duration
                           ELSE eb.max_error_duration)
                     ELSE eb.first_error_duration
               /\ eb'.base_duration = eb.base_duration
               /\ eb'.first_error_duration = eb.first_error_duration
               /\ eb'.max_error_duration = eb.max_error_duration]_vars
    /\ []((TestDurations /\ streak \in 1..Len(TestBackoffSequence))
              => eb.current_duration = TestBackoffSequence[streak])

\* the cap is hit: the sixth failure of the tests' policy
C16_Witness ==
    /\ TestDurations
    /\ streak = 6
    /\ eb.is_error
    /\ eb.current_duration = TestMaxErrorDuration

\* C17: set_success() in error mode returns the policy to normal mode with
\* the base duration as current duration, after any number of failures; in
\* normal mode it changes nothing.
C17_SetSuccessResets ==
    [][(last_call' = "set_success" /\ streak' = 0)
          => /\ eb.is_error
                  => eb' = [eb EXCEPT !.is_error = FALSE,
                                      !.current_duration = eb.base_duration]
             /\ ~eb.is_error => eb' = eb]_vars

\* back to base after several failures, where base, first_error and the
\* duration reached all differ
C17_Witness ==
    /\ last_call = "set_success"
    /\ ~eb.is_error
    /\ eb.current_duration = eb.base_duration
    /\ eb.base_duration # eb.first_error_duration
    /\ eb.base_duration # eb.max_error_duration
    /\ eb.base_duration > 2 * eb.first_error_duration
    /\ eb.first_error_duration > 0

\* C18: when update() returns, the updater's backoff policy is in error
\* mode exactly when the poll that just ended failed.
C18_BackoffFollowsOutcome ==
    [][\A u \in Sources :
          UpdateReturns(u)
              => (backoff'[u].is_error <=> last_poll_failed'[u])]_vars

\* ------------------------------------------------------------------ C19-C20
RealTransport == update_mode["transport"] = "Real"
UpdateStep == transit_op'.name = "update"
AskStep == transit_op'.name = "get_next_update_time" /\ transit_op.name # "get_next_update_time"
DepartureSeconds(departures) ==
    {departures[i].seconds : i \in 1..Len(departures)}
Earliest(departures) ==
    CHOOSE t \in DepartureSeconds(departures) :
        \A x \in DepartureSeconds(departures) : t <= x

\* C19: a successful Real-mode update() whose earliest departure D is not in
\* the past stores D plus the one-second offset as the next update time,
\* which is not before D and is not the default; get_next_update_time()
\* asked until that instant returns it.
C19_NextPollFollowsDeparture ==
    [][/\ (UpdateStep /\ RealTransport /\ ~last_poll_failed'["transport"]
              /\ screen_content'.bus_departures # Empty
              /\ Earliest(screen_content'.bus_departures) >= instant)
            => /\ transport_next_update'
                     = Earliest(screen_content'.bus_departures) + DepartureOffset
               /\ transport_next_update'
                     >= Earliest(screen_content'.bus_departures)
               /\ transport_next_update' # instant + DefaultDelay
       /\ (AskStep /\ RealTransport /\ transit_op.update_at <= instant
              /\ ~last_poll_failed["transport"]
              /\ screen_content.bus_departures # Empty
              /\ Earliest(screen_content.bus_departures) >= transit_op.update_at
              /\ instant <= Earliest(screen_content.bus_departures) + DepartureOffset)
            => next_update_time'
                  = Earliest(screen_content.bus_departures) + DepartureOffset]_vars

\* two departures were fetched later one first, the earliest lies ahead,
\* time has passed and the next update time was asked
C19_Witness ==
    /\ RealTransport
    /\ transit_op.name = "get_next_update_time"
    /\ Len(screen_content.bus_departures) = 2
    /\ screen_content.bus_departures[1].destination_enum = "Renens"
    /\ screen_content.bus_departures[1].seconds
           < screen_content.bus_departures[2].seconds
    /\ screen_content.bus_departures[1].seconds > transit_op.update_at
    /\ instant > transit_op.update_at
    /\ next_update_time = screen_content.bus_departures[1].seconds + DepartureOffset

\* C20: in Real mode the next update is ten minutes from now when a
\* successful fetch yields no departure, when the earliest departure is a
\* minute or more in the past, when the fetch failed, and when the stored
\* next update time is already past as get_next_update_time() is asked.
C20_FallbackIsTenMinutes ==
    [][/\ (UpdateStep /\ RealTransport
              /\ \/ last_poll_failed'["transport"]
                 \/ screen_content'.bus_departures = Empty
                 \/ Earliest(screen_content'.bus_departures)
                        <= instant - StaleWindow)
            => transport_next_update' = instant + DefaultDelay
       /\ (AskStep /\ RealTransport /\ transport_next_update < instant)
            => next_update_time' = instant + DefaultDelay]_vars

\* the stored next update time had passed when it was asked
C20_Witness ==
    /\ RealTransport
    /\ transit_op.name = "get_next_update_time"
    /\ transport_next_update < instant
    /\ next_update_time = instant + DefaultDelay
    /\ ~last_poll_failed["transport"]
    /\ screen_content.bus_departures # Empty

\* C21: a successful Real-mode update() whose earliest departure is less
\* than one minute away from now, ahead or behind, stores exactly now plus
\* one minute as the next update time.
C21_WithinAMinuteRetries ==
    [][(UpdateStep /\ RealTransport /\ ~last_poll_failed'["transport"]
           /\ screen_content'.bus_departures # Empty
           /\ Earliest(screen_content'.bus_departures) > instant - StaleWindow
           /\ Earliest(screen_content'.bus_departures) < instant + StaleWindow)
         => transport_next_update' = instant + RetryDelay]_vars

\* ------------------------------------------------------------------ C22..C25
EntryEnds ==
    /\ extract_departures.pc = "loop"
    /\ extract_departures'.read_event = "StopEventResult"

\* C22: the departures extract_departures returns hold at most one record
\* per destination, and one exactly for each destination some complete entry
\* of the response maps to, with the minimum of the times of those entries.
C22_EarliestPerDestination ==
    (extract_departures.pc = "returned" /\ extract_departures.result.kind = "Ok")
        => \A d \in Destinations :
              LET records == {r \in extract_departures.result.value :
                                 r.destination_enum = d}
                  times == extract_departures.complete[d]
              IN  /\ Cardinality(records) <= 1
                  /\ times = {} => records = {}
                  /\ times # {}
                        => records = {[destination_enum |-> d,
                                       seconds |-> Minimum(times)]}

\* C23: at the end of an entry that holds a TimetabledTime and a mapped stop
\* ID, the departure built has the entry's EstimatedTime when the entry
\* holds one, before or after the TimetabledTime, and the TimetabledTime
\* otherwise.
C23_EstimatedOverridesTimetabled ==
    [][(EntryEnds /\ extract_departures.entry.TimetabledTime # Empty
           /\ EntryDestination(extract_departures) # Empty)
         => extract_departures'.new_departure =
                <<[destination_enum |-> EntryDestination(extract_departures)[1],
                   seconds |-> EntryTime(extract_departures.entry)[1]]>>]_vars

\* C24: the end of an entry that lacks a time or a mapped stop ID of its own
\* builds no departure, merges nothing and leaves the loop running, and a
\* response without a qualifying entry returns Ok with no departure.
C24_BuilderResetsPerEntry ==
    [][/\ (EntryEnds /\ ~Qualifies(extract_departures))
            => /\ extract_departures'.new_departure = Empty
               /\ extract_departures'.departures = extract_departures.departures
               /\ extract_departures'.pc = "loop"
       /\ (extract_departures'.pc = "returned" /\ ~extract_departures'.bad_time
              /\ \A d \in Destinations : extract_departures'.complete[d] = {})
            => extract_departures'.result = [kind |-> "Ok", value |-> {}]]_vars

\* C25: once a time text off the timestamp grammar was read, the extraction
\* has returned an error, and no departure with it.
C25_MalformedTimeIsError ==
    extract_departures.bad_time
        => /\ extract_departures.pc = "returned"
           /\ extract_departures.result = [kind |-> "Err", value |-> {}]

\* ------------------------------------------------------------------ C26..C28
\* The lines of a feed before its first END:VEVENT line.
FirstEvent(f) ==
    LET Ends == {i \in 1..Len(f) : f[i].kind = "END:VEVENT"}
    IN  IF Ends = {} THEN f ELSE SubSeq(f, 1, Minimum(Ends) - 1)

\* The event the lines p describe: the title of the last SUMMARY line and
\* the start of the last DTSTART line, no event when there is neither.
DescribedEvent(p) ==
    LET Summaries == {i \in 1..Len(p) : p[i].kind = "SUMMARY"}
        Starts == {i \in 1..Len(p) : p[i].kind = "DTSTART"}
        Last(S) == CHOOSE i \in S : \A j \in S : j <= i
    IN  IF Summaries = {} /\ Starts = {} THEN Empty
        ELSE <<[event_title |-> IF Summaries = {} THEN ""
                                ELSE p[Last(Summaries)].title,
                event_start |-> IF Starts = {} THEN Empty
                                ELSE <<p[Last(Starts)].ts>>]>>

HasMalformedStart(p) ==
    \E i \in 1..Len(p) : p[i].kind = "DTSTART" /\ ~p[i].valid

C28_MalformedStartAnywhereFails ==
    (parse_next_event.pc = "returned"
        /\ HasMalformedStart(parse_next_event.feed))
        => /\ parse_next_event.result.kind = "Err"
           /\ \E i \in 1..Len(parse_next_event.result.message) :
                 SubSeq(parse_next_event.result.message, i,
                        Len(parse_next_event.result.message))
                     = <<"timestamp", "parsing", "error">>

\* C28 amended: a malformed DTSTART line before the first END:VEVENT makes
\* parse_next_event return a failure whose message contains "timestamp
\* parsing error", and no event.
C28_MalformedStartFails ==
    (parse_next_event.pc = "returned"
        /\ HasMalformedStart(FirstEvent(parse_next_event.feed)))
        => /\ parse_next_event.result.kind = "Err"
           /\ parse_next_event.result.value = Empty
           /\ \E i \in 1..Len(parse_next_event.result.message) :
                 SubSeq(parse_next_event.result.message, i,
                        Len(parse_next_event.result.message))
                     = <<"timestamp", "parsing", "error">>

\* a title and a start had been read when the malformed DTSTART was met
C28_Witness ==
    /\ parse_next_event.pc = "returned"
    /\ parse_next_event.result.kind = "Err"
    /\ parse_next_event.first_upcoming_event # Empty
    /\ parse_next_event.first_upcoming_event[1].event_title # ""
    /\ parse_next_event.first_upcoming_event[1].event_start # Empty
    /\ HasMalformedStart(FirstEvent(parse_next_event.feed))

\* ------------------------------------------------------------------ C29..C30
\* C29: extract_debts returns Ok with the records of the valid elements, one
\* each, in document order, the other elements skipped, and fails exactly
\* when the page has no valid element.
C29_OneRecordPerValidElement ==
    extract_debts.pc = "returned"
        => IF extract_debts.valid_debts = Empty
           THEN extract_debts.result.kind = "Err"
           ELSE /\ extract_debts.result.kind = "Ok"
                /\ extract_debts.result.value = extract_debts.valid_debts

\* several elements were selected, all but one skipped, and the one record
\* was returned
C29_Witness ==
    /\ extract_debts.pc = "returned"
    /\ extract_debts.selected > 1
    /\ extract_debts.result.kind = "Ok"
    /\ Len(extract_debts.result.value) = 1
    /\ extract_debts.debts = extract_debts.valid_debts

\* C30: every record extract_debts collects has a payer and a payee that
\* are not empty and an amount that is not negative.
C30_RecordsAreWellFormed ==
    \A i \in 1..Len(extract_debts.debts) :
        /\ extract_debts.debts[i].who # ""
        /\ extract_debts.debts[i].whom # ""
        /\ extract_debts.debts[i].how_much >= 0

\* ------------------------------------------------------------------ C31..C35
\* C31: no step changes the mode of an updater, and the fetch step of an
\* updater in Dummy mode yields generated data, never the outcome of a
\* request: a value that is not empty and, for Kitty and transport, no
\* failure.
C31_ModeIsFixed ==
    [][/\ update_mode' = update_mode
       /\ \A u \in Sources :
             (pc[u] = "fetch" /\ pc'[u] = "ready" /\ update_mode[u] = "Dummy")
                 => /\ local'[u] \in Payloads
                    /\ u # "gcal" => ~last_poll_failed'[u]]_vars

\* a loop in Dummy mode has written its data next to a loop in Real mode
\* whose latest poll failed
C31_Witness ==
    \E u \in Sources : \E v \in Sources \ {u} :
        /\ update_mode[u] = "Dummy"
        /\ pc[u] = "sleep"
        /\ screen_content[OwnField(u)] # Empty
        /\ update_mode[v] = "Real"
        /\ pc[v] = "sleep"
        /\ last_poll_failed[v]

\* C32: when the polling client rests between two ticks, its stored hash
\* is the hash a query would return now and its stored minute is the current
\* minute, the content it fetched last equals, apart from the time field,
\* the content a query would return now.
C32_MatchingHashMeansFreshContent ==
    (poll_pc = "wait" /\ content # Some(Empty)
        /\ hash = HashNow /\ minutes = wall_clock)
        => [content[1][1] EXCEPT !.now = Empty]
               = [ContentNow EXCEPT !.now = Empty]

\* C33: if from some point on no step changes the store, then from some
\* point on the content the polling client holds is the content a query
\* would return.
C33_ClientConverges ==
    <>[][screen_content' = screen_content]_vars
        => <>[](content = Some(Some(ContentNow)))

\* the client holds a content that is not the store's while its hash is the
\* one served: only the change of minute makes it fetch again
C33_Witness ==
    /\ poll_pc = "wait"
    /\ content # Some(Empty)
    /\ content # Some(Some(ContentNow))
    /\ hash = HashNow
    /\ minutes = wall_clock

\* C34: the hash a query answers differs from the hash of every snapshot
\* that differs from the one served in the debts, the departures, the next
\* event, the brightness or the error field; and it differs from the hash
\* answered before in the same minute when the shared error flag has changed
\* since, the store being the same.
C34_HashShowsEveryDifference ==
    [][HashAnswered
         => /\ \A c \in [now : {Empty} \cup {<<m>> : m \in 0..(MinuteModulus - 1)},
                         brightness : {0},
                         kitty_debts : {Empty} \cup Payloads,
                         bus_departures : {Empty} \cup Payloads,
                         next_upcoming_event : {Empty} \cup Payloads,
                         error : BOOLEAN] :
                  [c EXCEPT !.now = Empty] # [screen_content EXCEPT !.now = Empty]
                      => Hash(Encode(c)) # hash_reply'
            /\ (last_hash.valid /\ last_hash.clock = wall_clock
                   /\ last_hash.error_bit # error_bit)
                  => hash_reply' # last_hash.hash]_vars

\* C35: a hash query made while the lock is poisoned is answered, with the
\* hash 0, and the polling client receives the answer; a client that has
\* fetched no content yet and receives 0 while its stored minute is the
\* current one ends the tick without a full-content query.
C35_HashErrorIsZero ==
    [][/\ (pc[Client] = "idle" /\ poisoned
              /\ pc'[Client] \notin {"idle", "cloning", "content_replied"})
            => (pc'[Client] = "hash_replied" /\ hash_reply' = ErrorHash)
       /\ (pc[Client] = "hash_replied" /\ pc'[Client] = "idle" /\ Polling)
            => (new_hash' = hash_reply /\ poll_pc' = "compare")
       /\ (poll_pc = "compare" /\ poll_pc' # "compare"
              /\ content = Some(Empty) /\ new_hash = ErrorHash
              /\ minutes = wall_clock)
            => (poll_pc' = "wait" /\ sent.full = 0 /\ content' = content)]_vars

\* the first hash the client received is the 0 of a poisoned lock, in the
\* minute it started in
C35_Witness ==
    /\ poisoned
    /\ poll_pc = "compare"
    /\ content = Some(Empty)
    /\ new_hash = ErrorHash
    /\ hash = ErrorHash
    /\ minutes = wall_clock
    /\ sent = [hash |-> 1, full |-> 0]

\* ------------------------------------------------------------------ C36..C39
\* C36: what get_next_update_time() returns is never before the instant of
\* the call, for the three updaters in both modes; for Kitty and gCal it is
\* that instant plus 19 s and 29 s in Dummy mode and plus the configured
\* period in Real mode, whether the last poll failed or not.
C36_NextPollIsNeverPast ==
    [][/\ transit_op'.name # transit_op.name
             /\ transit_op'.name \in {"get_next_update_time",
                                      "kitty.get_next_update_time",
                                      "gcal.get_next_update_time"}
            => next_update_time' >= instant
       /\ transit_op'.name # transit_op.name
             /\ transit_op'.name = "kitty.get_next_update_time"
            => next_update_time' =
                   instant + (IF update_mode["kitty"] = "Dummy"
                              THEN KittyDummyDelay ELSE UpdatePeriod)
       /\ transit_op'.name # transit_op.name
             /\ transit_op'.name = "gcal.get_next_update_time"
            => next_update_time' =
                   instant + (IF update_mode["gcal"] = "Dummy"
                              THEN GcalDummyDelay ELSE UpdatePeriod)]_vars

\* Kitty was asked after a failed poll and after time had passed
C36_Witness ==
    /\ transit_op.name = "kitty.get_next_update_time"
    /\ update_mode["kitty"] = "Real"
    /\ last_poll_failed["kitty"]
    /\ instant > 0
    /\ next_update_time = instant + UpdatePeriod

\* C37: for a policy constructed with first_error <= max_error, after any
\* sequence of set_error() and set_success() the current duration is base
\* in normal mode and lies between first_error and max_error in error mode;
\* if also first_error > 0, a run of set_error() calls with no set_success()
\* brings the current duration to max_error, and further set_error() calls
\* leave it there.
C37_BackoffStaysInRange ==
    /\ [](eb.first_error_duration <= eb.max_error_duration
            => IF eb.is_error
               THEN /\ eb.first_error_duration <= eb.current_duration
                    /\ eb.current_duration <= eb.max_error_duration
               ELSE eb.current_duration = eb.base_duration)
    /\ (/\ eb.first_error_duration <= eb.max_error_duration
        /\ eb.first_error_duration > 0
        /\ eb.is_error)
          ~> (\/ ~eb.is_error
              \/ eb.current_duration = eb.max_error_duration)
    /\ [][/\ eb.first_error_duration <= eb.max_error_duration
          /\ eb.first_error_duration > 0
          /\ eb.is_error
          /\ eb.current_duration = eb.max_error_duration
          /\ eb'.is_error
         => eb'.current_duration = eb'.max_error_duration]_vars

\* the policy 10/3/20 after 3, 6, 12, 20 and one more set_error()
C37_Witness ==
    /\ eb.base_duration = 10
    /\ eb.first_error_duration = 3
    /\ eb.max_error_duration = MaxDuration
    /\ eb.is_error
    /\ eb.current_duration = MaxDuration
    /\ streak = 5
    /\ last_call = "set_error"

\* C38: for a feed whose first BEGIN:VEVENT comes before its first
\* END:VEVENT, what parse_next_event returns is decided by the lines between
\* the two alone: SUMMARY and DTSTART lines before the first BEGIN:VEVENT
\* give no title and no start and cause no failure.
C38_HeaderLinesAreIgnored ==
    LET feed == parse_next_event.feed
        Begins == {i \in 1..Len(feed) : feed[i].kind = "BEGIN:VEVENT"}
        body == FirstEvent(SubSeq(feed, Minimum(Begins) + 1, Len(feed)))
    IN  (/\ parse_next_event.pc = "returned"
         /\ Begins # {}
         /\ Minimum(Begins) <= Len(FirstEvent(feed)))
            => IF HasMalformedStart(body)
               THEN parse_next_event.result.kind = "Err"
               ELSE /\ parse_next_event.result.kind = "Ok"
                    /\ parse_next_event.result.value = DescribedEvent(body)

\* C39: a DestinationStopPointRef whose text does not unescape or is not a
\* u32 ends the loop of extract_departures: the call returns Ok with the
\* departures merged before that event, the entry being read contributes
\* nothing, and nothing that follows in the response is read.
C39_BadStopIdEndsScan ==
    [][/\ (/\ extract_departures.pc = "loop"
           /\ extract_departures'.stop_text \in {"malformed", "unescapable"})
          => /\ extract_departures'.pc = "returned"
             /\ extract_departures'.result.kind = "Ok"
             /\ extract_departures'.result
                    = Collected(extract_departures.departures)
             /\ extract_departures'.departures
                    = extract_departures.departures
       /\ extract_departures.pc = "returned"
          => extract_departures' = extract_departures]_vars

\* the stop ID of the second entry was no number: the first entry's
\* departure is returned, the time the second had given is not
C39_Witness ==
    /\ extract_departures.pc = "returned"
    /\ extract_departures.stop_text = "malformed"
    /\ extract_departures.entry.EstimatedTime # Empty
    /\ extract_departures.result.kind = "Ok"
    /\ Cardinality(extract_departures.result.value) = 1
    /\ \A d \in extract_departures.result.value :
          d.seconds > extract_departures.entry.EstimatedTime[1]

====
